---- MODULE Spec2Model ----
(***************************************************************************)
(* Ingestion / deletion pipeline of the video upload application.          *)
(*                                                                         *)
(*   - the upload route (POST): staging, direct upload or split + parallel  *)
(*     part uploads with bounded retry, assembly, record creation;         *)
(*   - the splitter's plan computation (upload route and CLI script);      *)
(*   - the delete route (DELETE): prefix delete, per-id delete, record     *)
(*     removal;                                                            *)
(*   - the process-wide Cloudinary configuration shared by all requests.   *)
(*                                                                         *)
(* Identifiers and error messages are sequences of one-character strings,  *)
(* so that padding, suffix matching, prefix tests and substring search     *)
(* are computed, not assumed.                                              *)
(***************************************************************************)
EXTENDS Integers, Sequences, FiniteSets, TLC

(***************************************************************************)
(* Program constants (upload route; the CLI script sets the same values).  *)
(***************************************************************************)
MIN_FILE_SIZE == 50 * 1024 * 1024

TARGET_FILE_SIZE == 70 * 1024 * 1024

CLOUDINARY_LIMIT == 100 * 1024 * 1024

MAX_PARTS == 20

MAX_RETRIES == 3

UPLOAD_FOLDER == <<"v","i","d","e","o","-","p","l","a","t","f","o","r","m">>

(***************************************************************************)
(* Bounds of the model.                                                    *)
(***************************************************************************)
\* file sizes of the plan check: multiples of SizeStep up to MaxSizeSteps, +-1 byte
MaxSizeSteps == 150

\* probed durations of the plan check, in whole seconds
MaxDuration == 30

\* largest number of part files the remux step leaves in the split directory
MaxGenParts == 2

\* SeamlessPlayer: seconds of playback between two time updates, ticks of
\* the longest part, parts of the longest asset, clicks and key presses of a
\* viewer
TickSeconds == 10

MaxPartTicks == 1

MaxPlayerParts == 2

MaxInputs == 2

\* upload requests whose base identifiers are compared, and the milliseconds
\* that pass while they arrive
MaxRequests == 2

MaxClockTicks == 2

(***************************************************************************)
(* Small helpers.                                                          *)
(***************************************************************************)
Max(a, b) == IF a >= b THEN a ELSE b

Range(s) == {s[i] : i \in 1..Len(s)}

\* Math.ceil(a / b) for a >= 0, b > 0
CeilDiv(a, b) == (a + b - 1) \div b

(***************************************************************************)
(* JavaScript numbers that are not finite: a division by zero gives        *)
(* Infinity (x > 0) or NaN (x = 0), and Math.floor / Math.max keep them.   *)
(***************************************************************************)
JsNum(n) == [kind |-> "finite", val |-> n]

JsInfinity == [kind |-> "infinity", val |-> 0]

JsNaN == [kind |-> "nan", val |-> 0]

\* Math.floor(a / b) for integers a >= 0, b >= 0
JsFloorDiv(a, b) ==
  IF b = 0 THEN (IF a = 0 THEN JsNaN ELSE JsInfinity) ELSE JsNum(a \div b)

\* Math.max(1, x): NaN if x is NaN, Infinity if x is Infinity
JsMax1(x) == IF x.kind = "finite" THEN JsNum(Max(1, x.val)) ELSE x

(***************************************************************************)
(* Splitter: the plan computed by splitVideo.                              *)
(***************************************************************************)
\* mutant: the upper clamp is missing
ClampNoUpper(segments) == segments

\* if (segments > MAX_PARTS) segments = MAX_PARTS;   (there is no lower clamp)
ClampSegments(segments) == IF segments > MAX_PARTS THEN MAX_PARTS ELSE segments

\* while (segments > 1 && fileSize / segments < MIN_FILE_SIZE) segments--;
\* fileSize / segments < MIN_FILE_SIZE is fileSize < MIN_FILE_SIZE * segments
\* (both sides are integers far below 2^53, the quotient is compared exactly).
RECURSIVE MergeSmallParts(_, _)
MergeSmallParts(fileSize, segments) ==
  IF segments > 1 /\ fileSize < MIN_FILE_SIZE * segments
  THEN MergeSmallParts(fileSize, segments - 1)
  ELSE segments

\* let segments = Math.ceil(fileSize / TARGET_FILE_SIZE); clamp; merge
PlanSegments(fileSize) ==
  MergeSmallParts(fileSize, ClampSegments(CeilDiv(fileSize, TARGET_FILE_SIZE)))

\* upload route: Math.max(1, Math.floor(duration / segments))
RouteSegmentDuration(duration, segments) == JsMax1(JsFloorDiv(duration, segments))

\* CLI script: Math.floor(duration / segments)
CliSegmentDuration(duration, segments) == JsFloorDiv(duration, segments)

\* ffmpeg -f segment -segment_time segmentDuration on a source of `duration`
\* seconds that can be cut at every second: one part per started interval
PhysicalParts(duration, segmentDuration) == CeilDiv(duration, segmentDuration)

\* mutant: the size check is missing
OversizedNever(partSizes) == FALSE

\* parts.some((part) => statSync(part).size > CLOUDINARY_LIMIT)
Oversized(partSizes) == \E i \in 1..Len(partSizes) : partSizes[i] > CLOUDINARY_LIMIT

(***************************************************************************)
(* Text: identifiers and messages are sequences of characters.             *)
(***************************************************************************)
Digits == <<"0","1","2","3","4","5","6","7","8","9">>

UpperChars == <<"A","B","C","D","E","F","G","H","I","J","K","L","M","N","O","P","Q","R","S","T","U","V","W","X","Y","Z">>

LowerChars == <<"a","b","c","d","e","f","g","h","i","j","k","l","m","n","o","p","q","r","s","t","u","v","w","x","y","z">>

\* String(n) for n >= 0
RECURSIVE NatToString(_)
NatToString(n) ==
  IF n < 10 THEN <<Digits[n + 1]>>
  ELSE NatToString(n \div 10) \o <<Digits[(n % 10) + 1]>>

\* s.padStart(len, c)
RECURSIVE PadStart(_, _, _)
PadStart(s, len, c) == IF Len(s) >= len THEN s ELSE PadStart(<<c>> \o s, len, c)

LowerChar(c) ==
  IF \E k \in 1..Len(UpperChars) : UpperChars[k] = c
  THEN LowerChars[CHOOSE k \in 1..Len(UpperChars) : UpperChars[k] = c]
  ELSE c

\* s.toLowerCase()
ToLowerCase(s) == [k \in 1..Len(s) |-> LowerChar(s[k])]

\* s.includes(sub)
Includes(s, sub) ==
  \E k \in 1..(Len(s) - Len(sub) + 1) : SubSeq(s, k, k + Len(sub) - 1) = sub

\* s.startsWith(p)
StartsWith(s, p) == Len(p) <= Len(s) /\ SubSeq(s, 1, Len(p)) = p

\* Number.prototype.toString(36)
Base36Digits == Digits \o LowerChars

RECURSIVE ToBase36(_)
ToBase36(n) ==
  IF n < 36 THEN <<Base36Digits[n + 1]>>
  ELSE ToBase36(n \div 36) \o <<Base36Digits[(n % 36) + 1]>>

\* [a-z0-9-_] with the i flag
IsNameChar(c) ==
  c \in Range(LowerChars) \cup Range(UpperChars) \cup Range(Digits) \cup {"-", "_"}

\* name.replace(/\.[^/.]+$/, ''): the last dot and what follows it, when
\* something follows and holds no slash
StripExtension(name) ==
  LET dots == {k \in 1..Len(name) : name[k] = "."}
  IN  IF dots = {} THEN name
      ELSE LET k == CHOOSE d \in dots : \A e \in dots : e <= d
           IN  IF k < Len(name) /\ \A m \in (k + 1)..Len(name) : name[m] # "/"
               THEN SubSeq(name, 1, k - 1)
               ELSE name

\* .replace(/[^a-z0-9-_]+/gi, '-'): every run of other characters becomes
\* one dash
RECURSIVE ReplaceRuns(_)
ReplaceRuns(s) ==
  IF s = <<>> THEN <<>>
  ELSE IF IsNameChar(Head(s)) THEN <<Head(s)>> \o ReplaceRuns(Tail(s))
  ELSE IF Len(s) > 1 /\ ~IsNameChar(s[2]) THEN ReplaceRuns(Tail(s))
  ELSE <<"-">> \o ReplaceRuns(Tail(s))

\* .replace(/^-+|-+$/g, '')
RECURSIVE TrimDashes(_)
TrimDashes(s) ==
  IF s # <<>> /\ Head(s) = "-" THEN TrimDashes(Tail(s))
  ELSE IF s # <<>> /\ s[Len(s)] = "-" THEN TrimDashes(SubSeq(s, 1, Len(s) - 1))
  ELSE s

\* sanitizeBaseName
sanitizeBaseName(name) ==
  LET cleaned == ToLowerCase(TrimDashes(ReplaceRuns(StripExtension(name))))
  IN  IF cleaned = <<>> THEN <<"v","i","d","e","o">> ELSE cleaned

\* basePublicId = `${baseName}-${uniqueSuffix}` with uniqueSuffix = Date.now().toString(36)
DerivedBaseId(fileName, now) == sanitizeBaseName(fileName) \o <<"-">> \o ToBase36(now)

PartTag == <<"-","p","a","r","t","-">>

\* mutant: the index is not padded
PartPublicIdUnpadded(basePublicId, i) ==
  basePublicId \o PartTag \o NatToString(i + 1)

\* `${basePublicId}-part-${String(i + 1).padStart(3, '0')}`, i the 0-based index
PartPublicId(basePublicId, i) ==
  basePublicId \o PartTag \o PadStart(NatToString(i + 1), 3, "0")

\* result.public_id || `${UPLOAD_FOLDER}/${publicId}`: the store files the object
\* under the folder, so both operands are the same identifier
StoredPublicId(publicId) == UPLOAD_FOLDER \o <<"/">> \o publicId

(***************************************************************************)
(* Errors of the object store, as { message, http_code } (http_code 0 when *)
(* the error carries none), and their classification.                      *)
(***************************************************************************)
ErrRequestTimeout == [message |-> <<"R","e","q","u","e","s","t"," ","T","i","m","e","o","u","t">>, http_code |-> 499]

ErrSocketTimedOut == [message |-> <<"c","o","n","n","e","c","t"," ","E","T","I","M","E","D","O","U","T">>, http_code |-> 0]

ErrUnavailable == [message |-> <<"S","e","r","v","i","c","e"," ","U","n","a","v","a","i","l","a","b","l","e">>, http_code |-> 503]

ErrBadGateway == [message |-> <<"B","a","d"," ","G","a","t","e","w","a","y">>, http_code |-> 504]

ErrServer == [message |-> <<"S","e","r","v","e","r"," ","E","r","r","o","r">>, http_code |-> 500]

ErrUnauthorized == [message |-> <<"I","n","v","a","l","i","d"," ","S","i","g","n","a","t","u","r","e">>, http_code |-> 401]

ErrNoFile == [message |-> <<"E","N","O","E","N","T",":"," ","n","o"," ","s","u","c","h"," ","f","i","l","e">>, http_code |-> 0]

StoreErrors ==
  {ErrRequestTimeout, ErrSocketTimedOut, ErrUnavailable, ErrBadGateway,
   ErrServer, ErrUnauthorized, ErrNoFile}

\* mutant: every 5xx answer is retried
isRetryableAny5xx(error) ==
  \/ Includes(ToLowerCase(error.message), <<"t","i","m","e","o","u","t">>)
  \/ error.http_code >= 500

isRetryable(error) ==
  \/ Includes(ToLowerCase(error.message), <<"t","i","m","e","o","u","t">>)
  \/ error.http_code = 503
  \/ error.http_code = 504

(***************************************************************************)
(* uploadWithRetry: what the loop does with the outcome of attempt number  *)
(* `attempt` (0-based).  An outcome is a success or an error of the store. *)
(***************************************************************************)
NoError == [message |-> <<>>, http_code |-> 0]

Success == [ok |-> TRUE, error |-> NoError]

Failure(e) == [ok |-> FALSE, error |-> e]

Outcomes == {Success} \cup {Failure(e) : e \in StoreErrors}

\* mutant: the loop retries without a bound
RetryDecisionUnbounded(attempt, outcome) ==
  IF outcome.ok THEN "return"
  ELSE IF isRetryable(outcome.error) THEN "continue"
  ELSE "throw"

RetryDecision(attempt, outcome) ==
  IF outcome.ok THEN "return"
  ELSE IF attempt < MAX_RETRIES /\ isRetryable(outcome.error) THEN "continue"
  ELSE "throw"

\* the answers of the store the upload route is run against: a success, a
\* transient error, a permanent error
UploadOutcomes == {Success, Failure(ErrUnavailable), Failure(ErrUnauthorized)}

(***************************************************************************)
(* State.                                                                  *)
(***************************************************************************)
VARIABLES
  cloudinaryConfig,  \* the SDK's process-wide configuration (lib/cloudinary)
  remote,            \* objects held by the store: [cloud, publicId]
  videos,            \* persisted VideoRecords
  \* one POST request of the upload route
  pc,                \* where the handler stands
  resp,              \* HTTP status answered, 0 while none
  failure,           \* the stage whose error reached the catch block
  creds,             \* "user" (encrypted keys on the profile), "server", "none"
  fileSize,          \* size of the staged input file
  tempDir,           \* "none", "exists", "removed"
  isMultipart,
  splitCalled,       \* splitVideo has been invoked
  segments,          \* the plan's segment count, 0 before the plan
  genSizes,          \* sizes of the part files the remux left
  jobs,              \* the uploadWithRetry calls, by part index
  partsResults,      \* the array Promise.all fills, by part index
  arrivals,          \* part indices in the order their uploads succeeded
  \* one splitVideo plan (pure computation)
  planImpl, planSize, planDuration, planPc, planSegments, planSegDur,
  \* one uploadWithRetry call in isolation
  tryPc, tryAttempt, tryLog,
  \* one DELETE request of the video route
  delPc,             \* where the handler stands
  delResp,           \* HTTP status answered, 0 while none
  delFailure,        \* why the request ended without removing the record
  delCreds,          \* "user" (encrypted keys on the profile) or "none"
  delVideo,          \* the documents Video.findOne returned (at most one)
  delClientParts,    \* body.parts, <<>> when the body carries none
  delIds,            \* Array.from(publicIds)
  delPrefixes,       \* Array.from(multipartPrefixes)
  delPrefixCall,     \* index and configuration of the prefix delete in flight
  delFailedIds,      \* failedIds
  delJobs,           \* the deleteWithRetry calls, by index in remainingIds, each
                     \* with the answers of the store to its attempts (log)
  \* one mounted SeamlessPlayer
  parts,             \* props.parts as durations, <<>> when the prop is absent
  totalDuration,     \* props.totalDuration
  ui,                \* the component state of the last render
  queued,            \* the component state with the set-state calls not yet rendered
  vid,               \* videoRef.current: source loaded, currentTime, paused, ended
  rafQueue,          \* callbacks handed to requestAnimationFrame, oldest first
  effectPending,     \* the load-current-part effect of the last render has not run
  seekTarget,        \* unified time of the last seek no playback has followed, -1 if none
  inputs,            \* clicks and key presses made so far
  \* the base identifiers of the upload requests of one server
  clock,             \* Date.now(), in milliseconds from the first request
  reqName,           \* file.name of each request
  reqBase            \* basePublicId of each request, <<>> until it is derived

cfgVars == <<cloudinaryConfig, remote, videos>>

uploadVars ==
  <<pc, resp, failure, creds, fileSize, tempDir, isMultipart, splitCalled,
    segments, genSizes, jobs, partsResults, arrivals>>

planVars == <<planImpl, planSize, planDuration, planPc, planSegments, planSegDur>>

tryVars == <<tryPc, tryAttempt, tryLog>>

delVars ==
  <<delPc, delResp, delFailure, delCreds, delVideo, delClientParts, delIds,
    delPrefixes, delPrefixCall, delFailedIds, delJobs>>

playerVars ==
  <<parts, totalDuration, ui, queued, vid, rafQueue, effectPending, seekTarget, inputs>>

idVars == <<clock, reqName, reqBase>>

nonUploadVars == <<planVars, tryVars, delVars, playerVars, idVars>>

nonDeleteVars == <<uploadVars, planVars, tryVars, playerVars, idVars>>

vars == <<cfgVars, uploadVars, planVars, tryVars, delVars, playerVars, idVars>>

(***************************************************************************)
(* Configuration singleton.                                                *)
(***************************************************************************)
\* process.env at start-up
EnvConfig == [cloud_name |-> "env-cloud", api_key |-> "env-key"]

\* what the request resolves: cloudNameFromClient || user.cloudName || env
EffectiveCloudName == "cloud-a"

\* the keys the request resolves: the user's decrypted keys, else the server's
RequestKey(c) == IF c = "user" THEN "key-a" ELSE EnvConfig.api_key

RequestConfig(c) == [cloud_name |-> EffectiveCloudName, api_key |-> RequestKey(c)]

\* the configuration another user's request applies
OtherConfig == [cloud_name |-> "cloud-b", api_key |-> "key-b"]

\* setCurrentCloudName(name): cloudinary.config({ cloud_name, secure }) merges
SetCurrentCloudName(config, name) == [config EXCEPT !.cloud_name = name]

\* applyCloudinaryConfig(override): cloudinary.config({ cloud_name, api_key, api_secret })
ApplyCloudinaryConfig(config, override) ==
  [config EXCEPT !.cloud_name = override.cloud_name, !.api_key = override.api_key]

(***************************************************************************)
(* Upload route, POST.                                                     *)
(***************************************************************************)
BasePublicId == <<"c","l","i","p","-","k","1">>

InputSizes ==
  {40 * 1024 * 1024, CLOUDINARY_LIMIT, CLOUDINARY_LIMIT + 1,
   141 * 1024 * 1024, 1500 * 1024 * 1024}

\* the part files ffmpeg may leave: 1..MaxGenParts files, each at the limit or over
GenPartSizes ==
  UNION {[1..n -> {CLOUDINARY_LIMIT, CLOUDINARY_LIMIT + 1}] : n \in 1..MaxGenParts}

NoResult == [publicId |-> <<>>, fileSize |-> 0, duration |-> 0, width |-> 0]

\* what the store and ffprobe report for the part file of index i: every part
\* has its own duration and picture width
PartDuration(i) == 10 + i

PartWidth(i) == 640 * i

\* the value of one uploadWithRetry call with the file it was read from
UploadResult(publicId, size, i) ==
  [publicId |-> StoredPublicId(publicId), fileSize |-> size,
   duration |-> PartDuration(i), width |-> PartWidth(i)]

\* mutant: the boundary size is split too
NeedsSplitAtLimit(size) == size >= CLOUDINARY_LIMIT

\* if (fileSize <= CLOUDINARY_LIMIT) direct upload, else split
NeedsSplit(size) == ~(size <= CLOUDINARY_LIMIT)

\* the options of one upload_large call: { resource_type, folder, public_id,
\* chunk_size, timeout, overwrite: false }
UploadOptions(publicId) ==
  [folder |-> UPLOAD_FOLDER, public_id |-> publicId, overwrite |-> FALSE]

\* uploadWithRetry(filePath, publicId) entered: the first upload_large call is
\* issued at once, under the configuration in force
NewJob(publicId, size, config) ==
  [publicId |-> publicId, size |-> size, status |-> "inflight", calls |-> 1,
   cfg |-> config, sent |-> <<UploadOptions(publicId)>>]

\* mutant: the join waits for all to settle and never rejects
JoinAllSettled(js) ==
  IF \A i \in 1..Len(js) : js[i].status # "inflight" THEN "fulfilled" ELSE "pending"

\* mutant: the join never rejects
JoinNeverRejects(js) ==
  IF \A i \in 1..Len(js) : js[i].status = "ok" THEN "fulfilled" ELSE "pending"

\* Promise.all(uploads): rejects with the first rejection, fulfils when all did
PromiseAll(js) ==
  IF \E i \in 1..Len(js) : js[i].status = "failed" THEN "rejected"
  ELSE IF \A i \in 1..Len(js) : js[i].status = "ok" THEN "fulfilled"
  ELSE "pending"

\* mutant: results are collected in the order they arrive
StoreResultByArrival(results, i, r) ==
  LET free == {k \in 1..Len(results) : results[k] = NoResult}
  IN  IF free = {} THEN results
      ELSE [results EXCEPT ![CHOOSE k \in free : \A m \in free : k <= m] = r]

\* Promise.all keeps the value of promise i in slot i
StoreResult(results, i, r) == [results EXCEPT ![i] = r]

\* mutant: cleanup only after a success
CleanupOnSuccess(dir, status) == IF dir = "exists" /\ status = 201 THEN "removed" ELSE dir

\* finally { if (tempDir) await fs.rm(tempDir, { recursive: true, force: true }) }
CleanupTempDir(dir, status) == IF dir = "exists" THEN "removed" ELSE dir

\* { ...uploadResult, filePath } -> buildPartMetadataFromUpload -> + cloudName
PartMetadata(r) ==
  [publicId |-> r.publicId, fileSize |-> r.fileSize, duration |-> r.duration,
   width |-> r.width, cloudName |-> EffectiveCloudName]

RECURSIVE SumFileSize(_)
SumFileSize(ms) ==
  IF ms = <<>> THEN 0 ELSE ms[1].fileSize + SumFileSize(Tail(ms))

\* mutant: the duration of the primary part only
PrimaryDuration(ms) == ms[1].duration

\* partsMetadata.reduce((sum, part) => sum + (part.duration || 0), 0)
RECURSIVE SumDuration(_)
SumDuration(ms) ==
  IF ms = <<>> THEN 0 ELSE ms[1].duration + SumDuration(Tail(ms))

\* the document handed to Video.create
VideoRecord(results, multipart) ==
  LET partsMetadata == [k \in 1..Len(results) |-> PartMetadata(results[k])]
      primary == partsMetadata[1]
  IN  [publicId |-> primary.publicId,
       cloudName |-> EffectiveCloudName,
       duration |-> SumDuration(partsMetadata),
       width |-> primary.width,
       fileSize |-> SumFileSize(partsMetadata),
       isMultipart |-> multipart,
       totalParts |-> Len(partsMetadata),
       parts |-> IF multipart THEN partsMetadata ELSE <<>>]

\* an exit of the try block: the answer is set and the finally clause is next
Exit(status, stage) ==
  /\ resp' = status
  /\ failure' = stage
  /\ pc' = "finally"

\* getServerSession: 401 without a session
Authenticate ==
  /\ pc = "auth"
  /\ \/ /\ pc' = "ffmpeg"
        /\ UNCHANGED resp
     \/ /\ resp' = 401
        /\ pc' = "done"
  /\ UNCHANGED <<cfgVars, failure, creds, fileSize, tempDir, isMultipart,
                 splitCalled, segments, genSizes, jobs, partsResults, arrivals>>
  /\ UNCHANGED nonUploadVars

\* checkFFmpeg: 500 when the tool is missing
CheckFFmpeg ==
  /\ pc = "ffmpeg"
  /\ \/ /\ pc' = "load"
        /\ UNCHANGED resp
     \/ /\ resp' = 500
        /\ pc' = "done"
  /\ UNCHANGED <<cfgVars, failure, creds, fileSize, tempDir, isMultipart,
                 splitCalled, segments, genSizes, jobs, partsResults, arrivals>>
  /\ UNCHANGED nonUploadVars

\* title / file / file.type checks, after the configuration is applied
Validate(valid) ==
  IF valid
  THEN /\ pc' = "mkdtemp"
       /\ UNCHANGED <<resp, failure>>
  ELSE Exit(400, "validation")

\* formData, connectDB, User.findById; setCurrentCloudName; credentials check;
\* with server keys the configuration is applied in the same turn
LoadUser ==
  /\ pc = "load"
  /\ \/ /\ Exit(500, "load")
        /\ UNCHANGED cloudinaryConfig
     \/ /\ creds = "none"
        /\ cloudinaryConfig' = SetCurrentCloudName(cloudinaryConfig, EffectiveCloudName)
        /\ Exit(400, "credentials")
     \/ /\ creds = "user"
        /\ cloudinaryConfig' = SetCurrentCloudName(cloudinaryConfig, EffectiveCloudName)
        /\ pc' = "decrypt"
        /\ UNCHANGED <<resp, failure>>
     \/ /\ creds = "server"
        /\ cloudinaryConfig' =
             ApplyCloudinaryConfig(
               SetCurrentCloudName(cloudinaryConfig, EffectiveCloudName),
               RequestConfig(creds))
        /\ \E valid \in BOOLEAN : Validate(valid)
  /\ UNCHANGED <<remote, videos, creds, fileSize, tempDir, isMultipart,
                 splitCalled, segments, genSizes, jobs, partsResults, arrivals>>
  /\ UNCHANGED nonUploadVars

\* after `await import('@/lib/crypto')`: decryptSecret, applyCloudinaryConfig
Decrypt ==
  /\ pc = "decrypt"
  /\ \/ /\ Exit(500, "decrypt")
        /\ UNCHANGED cloudinaryConfig
     \/ /\ cloudinaryConfig' = ApplyCloudinaryConfig(cloudinaryConfig, RequestConfig(creds))
        /\ \E valid \in BOOLEAN : Validate(valid)
  /\ UNCHANGED <<remote, videos, creds, fileSize, tempDir, isMultipart,
                 splitCalled, segments, genSizes, jobs, partsResults, arrivals>>
  /\ UNCHANGED nonUploadVars

\* tempDir = await fs.mkdtemp(...)
Mkdtemp ==
  /\ pc = "mkdtemp"
  /\ \/ /\ tempDir' = "exists"
        /\ pc' = "write"
        /\ UNCHANGED <<resp, failure>>
     \/ /\ Exit(500, "staging")
        /\ UNCHANGED tempDir
  /\ UNCHANGED <<cfgVars, creds, fileSize, isMultipart, splitCalled, segments,
                 genSizes, jobs, partsResults, arrivals>>
  /\ UNCHANGED nonUploadVars

\* await fs.writeFile(inputFilePath, buffer); then the size decides the branch:
\* the direct upload is issued at once, the split branch first awaits fs.mkdir
WriteFile ==
  /\ pc = "write"
  /\ \/ /\ Exit(500, "staging")
        /\ UNCHANGED <<isMultipart, jobs, partsResults>>
     \/ /\ ~NeedsSplit(fileSize)
        /\ jobs' = <<NewJob(BasePublicId, fileSize, cloudinaryConfig)>>
        /\ partsResults' = <<NoResult>>
        /\ pc' = "uploading"
        /\ UNCHANGED <<resp, failure, isMultipart>>
     \/ /\ NeedsSplit(fileSize)
        /\ isMultipart' = TRUE
        /\ pc' = "mkdir"
        /\ UNCHANGED <<resp, failure, jobs, partsResults>>
  /\ UNCHANGED <<cfgVars, creds, fileSize, tempDir, splitCalled, segments,
                 genSizes, arrivals>>
  /\ UNCHANGED nonUploadVars

\* await fs.mkdir(outputDir); splitVideo is entered and awaits ffprobe
MkSplitDir ==
  /\ pc = "mkdir"
  /\ \/ /\ splitCalled' = TRUE
        /\ pc' = "probe"
        /\ UNCHANGED <<resp, failure>>
     \/ /\ Exit(500, "staging")
        /\ UNCHANGED splitCalled
  /\ UNCHANGED <<cfgVars, creds, fileSize, tempDir, isMultipart, segments,
                 genSizes, jobs, partsResults, arrivals>>
  /\ UNCHANGED nonUploadVars

\* splitVideo: getVideoDuration resolves, the plan is computed, ffmpeg is started
ProbeDuration ==
  /\ pc = "probe"
  /\ \/ /\ segments' = PlanSegments(fileSize)
        /\ pc' = "remux"
        /\ UNCHANGED <<resp, failure>>
     \/ /\ Exit(500, "probe")
        /\ UNCHANGED segments
  /\ UNCHANGED <<cfgVars, creds, fileSize, tempDir, isMultipart, splitCalled,
                 genSizes, jobs, partsResults, arrivals>>
  /\ UNCHANGED nonUploadVars

\* splitVideo: ffmpeg ends, the part files are listed and measured; back in
\* POST every part's uploadWithRetry is entered in the same turn
Remux ==
  /\ pc = "remux"
  /\ \/ /\ Exit(500, "split")
        /\ UNCHANGED <<genSizes, jobs, partsResults>>
     \/ \E sizes \in GenPartSizes :
          /\ genSizes' = sizes
          /\ IF Oversized(sizes)
             THEN /\ Exit(500, "oversized")
                  /\ UNCHANGED <<jobs, partsResults>>
             ELSE /\ jobs' = [i \in 1..Len(sizes) |->
                               NewJob(PartPublicId(BasePublicId, i - 1), sizes[i],
                                      cloudinaryConfig)]
                  /\ partsResults' = [i \in 1..Len(sizes) |-> NoResult]
                  /\ pc' = "uploading"
                  /\ UNCHANGED <<resp, failure>>
  /\ UNCHANGED <<cfgVars, creds, fileSize, tempDir, isMultipart, splitCalled,
                 segments, arrivals>>
  /\ UNCHANGED nonUploadVars

\* one upload_large call of part i ends.  uploadWithRetry returns, issues the
\* next call (under the configuration then in force) or throws; the handler,
\* if it still awaits Promise.all, goes on when the join fulfils or rejects.
SettleUpload(i, outcome) ==
  /\ jobs[i].status = "inflight"
  /\ LET decision == RetryDecision(jobs[i].calls - 1, outcome)
         job == jobs[i]
     IN  /\ jobs' = [jobs EXCEPT ![i] =
                 CASE decision = "return" -> [job EXCEPT !.status = "ok"]
                   [] decision = "continue" ->
                        [job EXCEPT !.calls = job.calls + 1, !.cfg = cloudinaryConfig,
                                     !.sent = Append(job.sent, UploadOptions(job.publicId))]
                   [] OTHER -> [job EXCEPT !.status = "failed"]]
         /\ IF decision = "return"
            THEN /\ remote' = remote \cup
                      {[cloud |-> job.cfg.cloud_name,
                        publicId |-> StoredPublicId(job.publicId)]}
                 /\ partsResults' =
                      StoreResult(partsResults, i,
                        UploadResult(job.publicId, job.size, i))
                 /\ arrivals' = Append(arrivals, i)
            ELSE UNCHANGED <<remote, partsResults, arrivals>>
  /\ IF pc = "uploading" /\ PromiseAll(jobs') = "fulfilled"
     THEN /\ pc' = "assembling"
          /\ UNCHANGED <<resp, failure>>
     ELSE IF pc = "uploading" /\ PromiseAll(jobs') = "rejected"
     THEN Exit(500, "upload")
     ELSE UNCHANGED <<pc, resp, failure>>
  /\ UNCHANGED <<cloudinaryConfig, videos, creds, fileSize, tempDir, isMultipart,
                 splitCalled, segments, genSizes>>
  /\ UNCHANGED nonUploadVars

\* Promise.all(partsResults.map(buildPartMetadataFromUpload)): fs.stat and ffprobe
BuildMetadata ==
  /\ pc = "assembling"
  /\ \/ /\ pc' = "create"
        /\ UNCHANGED <<resp, failure>>
     \/ Exit(500, "metadata")
  /\ UNCHANGED <<cfgVars, creds, fileSize, tempDir, isMultipart, splitCalled,
                 segments, genSizes, jobs, partsResults, arrivals>>
  /\ UNCHANGED nonUploadVars

\* Video.create(...), then the 201 answer
CreateRecord ==
  /\ pc = "create"
  /\ \/ /\ videos' = videos \cup {VideoRecord(partsResults, isMultipart)}
        /\ Exit(201, "none")
     \/ /\ Exit(500, "create")
        /\ UNCHANGED videos
  /\ UNCHANGED <<cloudinaryConfig, remote, creds, fileSize, tempDir, isMultipart,
                 splitCalled, segments, genSizes, jobs, partsResults, arrivals>>
  /\ UNCHANGED nonUploadVars

\* the finally clause
Finally ==
  /\ pc = "finally"
  /\ tempDir' = CleanupTempDir(tempDir, resp)
  /\ pc' = "done"
  /\ UNCHANGED <<cfgVars, resp, failure, creds, fileSize, isMultipart, splitCalled,
                 segments, genSizes, jobs, partsResults, arrivals>>
  /\ UNCHANGED nonUploadVars

\* a request of another user reaches its applyCloudinaryConfig
OtherRequest ==
  /\ cloudinaryConfig # OtherConfig
  /\ cloudinaryConfig' = ApplyCloudinaryConfig(cloudinaryConfig, OtherConfig)
  /\ UNCHANGED <<remote, videos, uploadVars>>
  /\ UNCHANGED nonUploadVars

UploadInit ==
  /\ cloudinaryConfig = EnvConfig
  /\ remote = {}
  /\ videos = {}
  /\ pc = "auth"
  /\ resp = 0
  /\ failure = "none"
  /\ creds \in {"user", "server", "none"}
  /\ fileSize \in InputSizes
  /\ tempDir = "none"
  /\ isMultipart = FALSE
  /\ splitCalled = FALSE
  /\ segments = 0
  /\ genSizes = <<>>
  /\ jobs = <<>>
  /\ partsResults = <<>>
  /\ arrivals = <<>>

StoreIdle ==
  /\ cloudinaryConfig = EnvConfig
  /\ remote = {}
  /\ videos = {}

UploadIdle ==
  /\ pc = "done"
  /\ resp = 0
  /\ failure = "none"
  /\ creds = "none"
  /\ fileSize = 0
  /\ tempDir = "none"
  /\ isMultipart = FALSE
  /\ splitCalled = FALSE
  /\ segments = 0
  /\ genSizes = <<>>
  /\ jobs = <<>>
  /\ partsResults = <<>>
  /\ arrivals = <<>>

PlanIdle ==
  /\ planImpl = "route"
  /\ planSize = 0
  /\ planDuration = 0
  /\ planPc = "idle"
  /\ planSegments = 0
  /\ planSegDur = JsNum(0)

TryIdle ==
  /\ tryPc = "idle"
  /\ tryAttempt = 0
  /\ tryLog = <<>>

\* the useState initial values
InitialState ==
  [partIndex |-> 0, playing |-> FALSE, currentTime |-> 0, buffered |-> 0,
   seeking |-> FALSE, transitioning |-> FALSE]

\* no player is mounted
PlayerIdle ==
  /\ parts = <<>>
  /\ totalDuration = 0
  /\ ui = InitialState
  /\ queued = InitialState
  /\ vid = [src |-> -1, currentTime |-> 0, paused |-> TRUE, ended |-> FALSE]
  /\ rafQueue = <<>>
  /\ effectPending = FALSE
  /\ seekTarget = -1
  /\ inputs = 0

\* no base identifier is being derived
IdIdle ==
  /\ clock = 0
  /\ reqName = <<>>
  /\ reqBase = <<>>

Next ==
  \/ Authenticate
  \/ CheckFFmpeg
  \/ LoadUser
  \/ Decrypt
  \/ Mkdtemp
  \/ WriteFile
  \/ MkSplitDir
  \/ ProbeDuration
  \/ Remux
  \/ \E i \in 1..Len(jobs) : \E outcome \in UploadOutcomes : SettleUpload(i, outcome)
  \/ BuildMetadata
  \/ CreateRecord
  \/ Finally
  \/ OtherRequest

DeleteIdle ==
  /\ delPc = "done"
  /\ delResp = 0
  /\ delFailure = "none"
  /\ delCreds = "none"
  /\ delVideo = {}
  /\ delClientParts = <<>>
  /\ delIds = <<>>
  /\ delPrefixes = <<>>
  /\ delPrefixCall = [index |-> 0, cfg |-> EnvConfig]
  /\ delFailedIds = <<>>
  /\ delJobs = <<>>

Init == UploadInit /\ PlanIdle /\ TryIdle /\ DeleteIdle /\ PlayerIdle /\ IdIdle

Spec == Init /\ [][Next]_vars

(***************************************************************************)
(* splitVideo's plan as a computation on its own: every sampled file size  *)
(* and duration, for the upload route and for the CLI script.              *)
(***************************************************************************)
SizeStep == 10 * 1024 * 1024

SizeSamples ==
  {n \in {k * SizeStep + d : k \in 0..MaxSizeSteps, d \in {-1, 0, 1}} : n >= 0}

DurationSamples == (0..MaxDuration) \cup {185}

\* let segments = ...; const segmentDuration = ...
ComputePlan ==
  /\ planPc = "ready"
  /\ planSegments' = PlanSegments(planSize)
  /\ planSegDur' =
       IF planImpl = "route"
       THEN RouteSegmentDuration(planDuration, PlanSegments(planSize))
       ELSE CliSegmentDuration(planDuration, PlanSegments(planSize))
  /\ planPc' = "planned"
  /\ UNCHANGED <<planImpl, planSize, planDuration>>
  /\ UNCHANGED <<cfgVars, uploadVars, tryVars, delVars, playerVars, idVars>>

PlanInit ==
  /\ planImpl \in {"route", "cli"}
  /\ planSize \in SizeSamples
  /\ planDuration \in DurationSamples
  /\ planPc = "ready"
  /\ planSegments = 0
  /\ planSegDur = JsNum(0)

PlanNext == ComputePlan

InitPlan ==
  StoreIdle /\ UploadIdle /\ PlanInit /\ TryIdle /\ DeleteIdle /\ PlayerIdle /\ IdIdle

SpecPlan == InitPlan /\ [][PlanNext]_vars

(***************************************************************************)
(* One uploadWithRetry call on its own, with the outcome of every          *)
(* upload_large call it makes.                                             *)
(***************************************************************************)
\* the await of attempt tryAttempt ends with `outcome`
TrySettle(outcome) ==
  /\ tryPc = "calling"
  /\ tryLog' = Append(tryLog, outcome)
  /\ LET decision == RetryDecision(tryAttempt, outcome)
     IN  /\ tryPc' = CASE decision = "return" -> "returned"
                       [] decision = "continue" -> "calling"
                       [] OTHER -> "threw"
         /\ tryAttempt' = IF decision = "continue" THEN tryAttempt + 1 ELSE tryAttempt
  /\ UNCHANGED <<cfgVars, uploadVars, planVars, delVars, playerVars, idVars>>

TryInit ==
  /\ tryPc = "calling"
  /\ tryAttempt = 0
  /\ tryLog = <<>>

TryNext == \E outcome \in Outcomes : TrySettle(outcome)

InitTry ==
  StoreIdle /\ UploadIdle /\ PlanIdle /\ TryInit /\ DeleteIdle /\ PlayerIdle /\ IdIdle

SpecTry == InitTry /\ [][TryNext]_vars

(***************************************************************************)
(* Video route, DELETE.                                                    *)
(***************************************************************************)
DeleteAttempts == 3

IsDigit(c) == \E d \in 1..Len(Digits) : Digits[d] = c

\* id.match(/^(.*)-part-\d{3}$/)
MatchesPartId(id) ==
  /\ Len(id) >= Len(PartTag) + 3
  /\ SubSeq(id, Len(id) - 8, Len(id) - 3) = PartTag
  /\ \A k \in (Len(id) - 2)..Len(id) : IsDigit(id[k])

\* m[1] of that match
PartPrefix(id) == SubSeq(id, 1, Len(id) - Len(PartTag) - 3)

\* a Set keeps its members once, in insertion order
RECURSIVE InsertionOrder(_)
InsertionOrder(xs) ==
  IF xs = <<>> THEN <<>>
  ELSE LET front == InsertionOrder(SubSeq(xs, 1, Len(xs) - 1))
           x == xs[Len(xs)]
       IN  IF x \in Range(front) THEN front ELSE Append(front, x)

PartIdsOf(video) == [k \in 1..Len(video.parts) |-> video.parts[k].publicId]

\* publicIds: the client's list when it has members, else the record's
\* primary id and the id of every part
CandidateIds(video, clientParts) ==
  IF Len(clientParts) > 0
  THEN InsertionOrder(clientParts)
  ELSE InsertionOrder(<<video.publicId>> \o PartIdsOf(video))

\* multipartPrefixes
MultipartPrefixes(ids) ==
  InsertionOrder(
    [k \in 1..Len(SelectSeq(ids, MatchesPartId)) |->
       PartPrefix(SelectSeq(ids, MatchesPartId)[k])])

\* ids.filter((id) => !prefixes.some((p) => id.startsWith(p)))
RemainingIds(ids, prefixes) ==
  LET uncovered(id) == ~(\E k \in 1..Len(prefixes) : StartsWith(id, prefixes[k]))
  IN  SelectSeq(ids, uncovered)

\* lib/cloudinary deleteResources: any error of the SDK is replaced
DeleteResourcesError ==
  [message |-> <<"F","a","i","l","e","d"," ","t","o"," ","d","e","l","e","t","e"," ","r","e","s","o","u","r","c","e","s">>, http_code |-> 0]

deleteResources(outcome) ==
  IF outcome.ok THEN outcome ELSE Failure(DeleteResourcesError)

\* deleteWithRetry: what the loop does with the outcome of attempt i
DeleteRetryDecision(i, outcome) ==
  IF outcome.ok THEN "success"
  ELSE IF i < DeleteAttempts - 1 /\ isRetryable(outcome.error) THEN "continue"
  ELSE "fail"

DeleteOutcomes == {Success, Failure(ErrUnavailable), Failure(ErrUnauthorized)}

\* the ids of the deleteWithRetry calls that reported no success, in order
FailedJobIds(js) ==
  LET failed(j) == j.status = "failed"
      fs == SelectSeq(js, failed)
  IN  [k \in 1..Len(fs) |-> fs[k].id]

\* an answer of the DELETE handler
DelExit(status, stage) ==
  /\ delResp' = status
  /\ delFailure' = stage
  /\ delPc' = "done"

\* if (failedIds.length > 0) answer 500 with failedIds, else Video.deleteOne
DelDecide(failed) ==
  /\ delFailedIds' = failed
  /\ IF Len(failed) > 0
     THEN DelExit(500, "remote")
     ELSE /\ delPc' = "dbdelete"
          /\ UNCHANGED <<delResp, delFailure>>

\* remainingIds; every deleteWithRetry is entered in the same turn
DelStartIds(ids, prefixes, failed) ==
  LET remaining == RemainingIds(ids, prefixes)
  IN  IF Len(remaining) > 0
      THEN /\ delJobs' = [k \in 1..Len(remaining) |->
                           [id |-> remaining[k], status |-> "inflight", i |-> 0,
                            cfg |-> cloudinaryConfig, log |-> <<>>]]
           /\ delFailedIds' = failed
           /\ delPc' = "ids"
           /\ UNCHANGED <<delResp, delFailure>>
      ELSE /\ delJobs' = <<>>
           /\ DelDecide(failed)

DelAuthenticate ==
  /\ delPc = "auth"
  /\ \/ /\ delPc' = "find"
        /\ UNCHANGED <<delResp, delFailure>>
     \/ DelExit(401, "auth")
  /\ UNCHANGED <<cfgVars, delCreds, delVideo, delClientParts, delIds, delPrefixes,
                 delPrefixCall, delFailedIds, delJobs>>
  /\ UNCHANGED nonDeleteVars

\* connectDB, Video.findOne({ _id, userId })
DelFindVideo ==
  /\ delPc = "find"
  /\ \/ /\ DelExit(500, "load")
        /\ UNCHANGED delVideo
     \/ /\ videos = {}
        /\ DelExit(404, "notfound")
        /\ UNCHANGED delVideo
     \/ \E v \in videos :
          /\ delVideo' = {v}
          /\ delPc' = "user"
          /\ UNCHANGED <<delResp, delFailure>>
  /\ UNCHANGED <<cfgVars, delCreds, delClientParts, delIds, delPrefixes,
                 delPrefixCall, delFailedIds, delJobs>>
  /\ UNCHANGED nonDeleteVars

\* User.findById, the credentials and cloud name checks, then `await import`
DelLoadUser ==
  /\ delPc = "user"
  /\ \/ DelExit(500, "load")
     \/ /\ delCreds = "none"
        /\ DelExit(400, "credentials")
     \/ /\ delCreds = "user"
        /\ delPc' = "decrypt"
        /\ UNCHANGED <<delResp, delFailure>>
  /\ UNCHANGED <<cfgVars, delCreds, delVideo, delClientParts, delIds, delPrefixes,
                 delPrefixCall, delFailedIds, delJobs>>
  /\ UNCHANGED nonDeleteVars

\* decryptSecret, applyCloudinaryConfig with the cloud name of the video
DelDecrypt ==
  /\ delPc = "decrypt"
  /\ \/ /\ DelExit(500, "decrypt")
        /\ UNCHANGED cloudinaryConfig
     \/ \E v \in delVideo :
          /\ cloudinaryConfig' =
               ApplyCloudinaryConfig(cloudinaryConfig,
                 [cloud_name |-> v.cloudName, api_key |-> RequestKey(delCreds)])
          /\ delPc' = "body"
          /\ UNCHANGED <<delResp, delFailure>>
  /\ UNCHANGED <<remote, videos, delCreds, delVideo, delClientParts, delIds,
                 delPrefixes, delPrefixCall, delFailedIds, delJobs>>
  /\ UNCHANGED nonDeleteVars

\* await req.json(); the candidate ids and the prefixes are computed and the
\* first remote call is issued: a prefix delete if there is a prefix
DelParseBody ==
  /\ delPc = "body"
  /\ \E v \in delVideo :
       LET ids == CandidateIds(v, delClientParts)
           prefixes == MultipartPrefixes(ids)
       IN  /\ delIds' = ids
           /\ delPrefixes' = prefixes
           /\ IF Len(prefixes) > 0
              THEN /\ delPrefixCall' = [index |-> 1, cfg |-> cloudinaryConfig]
                   /\ delPc' = "prefix"
                   /\ UNCHANGED <<delResp, delFailure, delFailedIds, delJobs>>
              ELSE /\ DelStartIds(ids, prefixes, <<>>)
                   /\ UNCHANGED delPrefixCall
  /\ UNCHANGED <<cfgVars, delCreds, delVideo, delClientParts>>
  /\ UNCHANGED nonDeleteVars

\* deleteResourcesByPrefix(prefix) ends; a failure records the prefix in
\* failedIds; the next prefix is tried, or the per-id deletes begin
DelPrefixSettle(outcome) ==
  /\ delPc = "prefix"
  /\ LET prefix == delPrefixes[delPrefixCall.index]
         failed == IF outcome.ok THEN delFailedIds ELSE Append(delFailedIds, prefix)
     IN  /\ remote' =
               IF outcome.ok
               THEN {o \in remote : ~(o.cloud = delPrefixCall.cfg.cloud_name
                                       /\ StartsWith(o.publicId, prefix))}
               ELSE remote
         /\ IF delPrefixCall.index < Len(delPrefixes)
            THEN /\ delPrefixCall' =
                      [index |-> delPrefixCall.index + 1, cfg |-> cloudinaryConfig]
                 /\ delFailedIds' = failed
                 /\ UNCHANGED <<delPc, delResp, delFailure, delJobs>>
            ELSE /\ DelStartIds(delIds, delPrefixes, failed)
                 /\ UNCHANGED delPrefixCall
  /\ UNCHANGED <<cloudinaryConfig, videos, delCreds, delVideo, delClientParts,
                 delIds, delPrefixes>>
  /\ UNCHANGED nonDeleteVars

\* one deleteResources([id]) call of deleteWithRetry k ends; when the last
\* deleteWithRetry has returned, the failed ids are collected and the handler
\* decides
DelIdSettle(k, outcome) ==
  /\ delPc = "ids"
  /\ delJobs[k].status = "inflight"
  /\ LET job == delJobs[k]
         decision == DeleteRetryDecision(job.i, deleteResources(outcome))
         answered == [job EXCEPT !.log = Append(@, outcome)]
         js == [delJobs EXCEPT ![k] =
                  CASE decision = "success" -> [answered EXCEPT !.status = "ok"]
                    [] decision = "continue" ->
                         [answered EXCEPT !.i = job.i + 1, !.cfg = cloudinaryConfig]
                    [] OTHER -> [answered EXCEPT !.status = "failed"]]
     IN  /\ delJobs' = js
         /\ remote' =
              IF decision = "success"
              THEN remote \ {[cloud |-> job.cfg.cloud_name, publicId |-> job.id]}
              ELSE remote
         /\ IF \A m \in 1..Len(js) : js[m].status # "inflight"
            THEN DelDecide(delFailedIds \o FailedJobIds(js))
            ELSE UNCHANGED <<delPc, delResp, delFailure, delFailedIds>>
  /\ UNCHANGED <<cloudinaryConfig, videos, delCreds, delVideo, delClientParts,
                 delIds, delPrefixes, delPrefixCall>>
  /\ UNCHANGED nonDeleteVars

\* await Video.deleteOne({ _id }); a rejection reaches the catch block
DelDbDelete ==
  /\ delPc = "dbdelete"
  /\ \/ /\ videos' = videos \ delVideo
        /\ DelExit(200, "none")
     \/ /\ DelExit(500, "db")
        /\ UNCHANGED videos
  /\ UNCHANGED <<cloudinaryConfig, remote, delCreds, delVideo, delClientParts,
                 delIds, delPrefixes, delPrefixCall, delFailedIds, delJobs>>
  /\ UNCHANGED nonDeleteVars

\* records as the upload route leaves them, and bodies a client may send
IdDirect == StoredPublicId(BasePublicId)

IdPart(n) == StoredPublicId(PartPublicId(BasePublicId, n - 1))

IdOther == StoredPublicId(<<"t","r","a","i","l","e","r","-","k","2">>)

DirectRecord ==
  VideoRecord(<<UploadResult(BasePublicId, 40 * 1024 * 1024, 1)>>, FALSE)

MultipartRecord ==
  VideoRecord([n \in 1..2 |->
                 UploadResult(PartPublicId(BasePublicId, n - 1), CLOUDINARY_LIMIT, n)],
              TRUE)

ClientPartLists == {<<>>, <<IdDirect, IdOther>>, <<IdPart(2)>>}

ObjectsOf(video) ==
  {[cloud |-> video.cloudName, publicId |-> video.publicId]}
    \cup {[cloud |-> video.cloudName, publicId |-> video.parts[k].publicId] :
            k \in 1..Len(video.parts)}

DeleteInit ==
  /\ cloudinaryConfig = EnvConfig
  /\ videos \in {{}, {DirectRecord}, {MultipartRecord}}
  /\ remote = UNION {ObjectsOf(v) : v \in videos}
                \cup {[cloud |-> EffectiveCloudName, publicId |-> IdOther]}
  /\ delPc = "auth"
  /\ delResp = 0
  /\ delFailure = "none"
  /\ delCreds \in {"user", "none"}
  /\ delVideo = {}
  /\ delClientParts \in ClientPartLists
  /\ delIds = <<>>
  /\ delPrefixes = <<>>
  /\ delPrefixCall = [index |-> 0, cfg |-> EnvConfig]
  /\ delFailedIds = <<>>
  /\ delJobs = <<>>

DeleteNext ==
  \/ DelAuthenticate
  \/ DelFindVideo
  \/ DelLoadUser
  \/ DelDecrypt
  \/ DelParseBody
  \/ \E outcome \in {Success, Failure(ErrUnavailable)} : DelPrefixSettle(outcome)
  \/ \E k \in 1..Len(delJobs) : \E outcome \in DeleteOutcomes : DelIdSettle(k, outcome)
  \/ DelDbDelete
  \/ OtherRequest

InitDelete == DeleteInit /\ UploadIdle /\ PlanIdle /\ TryIdle /\ PlayerIdle /\ IdIdle

SpecDelete == InitDelete /\ [][DeleteNext]_vars

(***************************************************************************)
(* Termination.  One request, an upload or a delete, whose awaited calls    *)
(* (store, subprocess, file system, database) all return: whenever a step   *)
(* of the request is possible, a step is eventually taken.                  *)
(***************************************************************************)
InitLive == Init \/ InitDelete

LiveNext ==
  \/ Authenticate
  \/ CheckFFmpeg
  \/ LoadUser
  \/ Decrypt
  \/ Mkdtemp
  \/ WriteFile
  \/ MkSplitDir
  \/ ProbeDuration
  \/ Remux
  \/ \E i \in 1..Len(jobs) : \E outcome \in UploadOutcomes : SettleUpload(i, outcome)
  \/ BuildMetadata
  \/ CreateRecord
  \/ Finally
  \/ DelAuthenticate
  \/ DelFindVideo
  \/ DelLoadUser
  \/ DelDecrypt
  \/ DelParseBody
  \/ \E outcome \in {Success, Failure(ErrUnavailable)} : DelPrefixSettle(outcome)
  \/ \E k \in 1..Len(delJobs) : \E outcome \in DeleteOutcomes : DelIdSettle(k, outcome)
  \/ DelDbDelete

SpecLive == InitLive /\ [][LiveNext]_vars /\ WF_vars(LiveNext)

(***************************************************************************)
(* Base identifiers of the upload requests one server receives: each       *)
(* request reads the clock when it reaches its basePublicId line.          *)
(***************************************************************************)
Requests == 1..MaxRequests

FileNames ==
  {<<"c","l","i","p",".","m","p","4">>,
   <<"C","l","i","p",".","M","O","V">>,
   <<"m","y"," ","c","l","i","p",".","m","p","4">>,
   <<"#",".","m","p","4">>}

\* the clock, counted from a millisecond where toString(36) has one digit left
Clocks == 35..(35 + MaxClockTicks)

nonIdVars == <<cfgVars, uploadVars, planVars, tryVars, delVars, playerVars>>

\* a millisecond passes
ClockTick ==
  /\ clock + 1 \in Clocks
  /\ clock' = clock + 1
  /\ UNCHANGED <<reqName, reqBase>>
  /\ UNCHANGED nonIdVars

\* request r computes baseName, uniqueSuffix and basePublicId
DeriveBaseId(r) ==
  /\ reqBase[r] = <<>>
  /\ reqBase' = [reqBase EXCEPT ![r] = DerivedBaseId(reqName[r], clock)]
  /\ UNCHANGED <<clock, reqName>>
  /\ UNCHANGED nonIdVars

IdsInit ==
  /\ clock = 35
  /\ reqName \in [Requests -> FileNames]
  /\ reqBase = [r \in Requests |-> <<>>]

IdsNext ==
  \/ ClockTick
  \/ \E r \in Requests : DeriveBaseId(r)

InitIds ==
  StoreIdle /\ UploadIdle /\ PlanIdle /\ TryIdle /\ DeleteIdle /\ PlayerIdle /\ IdsInit

SpecIds == InitIds /\ [][IdsNext]_vars

(***************************************************************************)
(* SeamlessPlayer: the pure part.  Part indices start at 0 as in the      *)
(* component; sources is a sequence, so part i is sources[i + 1].          *)
(***************************************************************************)
SkipSeconds == 10

\* sources: props.parts when it has more than one member, else one source of
\* the whole duration
Sources(ps, total) == IF Len(ps) > 1 THEN ps ELSE <<total>>

sources == Sources(parts, totalDuration)

\* arr[i + 1] = arr[i] + sources[i].duration, arr[0] = 0
RECURSIVE OffsetAt(_, _)
OffsetAt(srcs, i) == IF i = 0 THEN 0 ELSE OffsetAt(srcs, i - 1) + srcs[i]

offsets == [i \in 0..Len(sources) |-> OffsetAt(sources, i)]

\* Math.max(min, Math.min(max, v))
clamp(v, min, max) == Max(min, IF max <= v THEN max ELSE v)

\* mutant: the loop compares with > instead of >=
RECURSIVE PartLoopStrict(_, _)
PartLoopStrict(i, t) ==
  IF i < 0 THEN 0 ELSE IF t > offsets[i] THEN i ELSE PartLoopStrict(i - 1, t)

partForTimeStrict(t) == PartLoopStrict(Len(sources) - 1, t)

\* for (let i = sources.length - 1; i >= 0; i--) if (t >= offsets[i]) return i;
\* return 0
RECURSIVE PartLoop(_, _)
PartLoop(i, t) ==
  IF i < 0 THEN 0 ELSE IF t >= offsets[i] THEN i ELSE PartLoop(i - 1, t)

partForTime(t) == PartLoop(Len(sources) - 1, t)

(***************************************************************************)
(* The video element behind videoRef.                                      *)
(***************************************************************************)
SourceDuration(index) == IF index < 0 THEN 0 ELSE sources[index + 1]

\* vid.src = src; vid.load(): the position returns to 0 and the element is
\* paused until play() is called again
Load(index) == [src |-> index, currentTime |-> 0, paused |-> TRUE, ended |-> FALSE]

\* vid.currentTime = t: the element keeps the position within its media
SetCurrentTime(v, t) ==
  [v EXCEPT !.currentTime = clamp(t, 0, SourceDuration(v.src)), !.ended = FALSE]

\* vid.play()
PlayElement(v) == [v EXCEPT !.paused = FALSE]

\* vid.pause()
PauseElement(v) == [v EXCEPT !.paused = TRUE]

(***************************************************************************)
(* SeamlessPlayer: handlers, rendering and callbacks.  A handler reads the *)
(* state of the last render (ui) and its set-state calls go to queued; the *)
(* next render makes queued the state.  The operators work on a record w   *)
(* of the player so that a handler, the render and the effect that follow  *)
(* a click or a key press can be composed into one step.                   *)
(***************************************************************************)
World ==
  [ui |-> ui, queued |-> queued, vid |-> vid, raf |-> rafQueue, eff |-> effectPending]

\* useEffect([partIndex, sources]): if (vid.src !== src) { vid.src = src; vid.load() }
RunEffect(w) ==
  IF ~w.eff THEN w
  ELSE [w EXCEPT !.eff = FALSE,
                 !.vid = IF w.vid.src # w.ui.partIndex THEN Load(w.ui.partIndex) ELSE @]

\* a render: effects still pending run first, the queued state becomes the
\* state, and the load effect is due when partIndex changed
Render(w) ==
  LET w1 == RunEffect(w)
  IN  [w1 EXCEPT !.ui = w1.queued, !.eff = (w1.queued.partIndex # w1.ui.partIndex)]

\* the updates of a click or a key press are rendered, and their effects
\* run, before the event returns
Discrete(w) == RunEffect(Render(w))

\* mutant: the time update ignores the seeking and transitioning flags
handleTimeUpdateUnguarded(w, bufEnd) ==
  [w EXCEPT !.queued =
     [@ EXCEPT !.currentTime = offsets[w.ui.partIndex] + w.vid.currentTime,
               !.buffered = IF bufEnd >= 0 THEN offsets[w.ui.partIndex] + bufEnd ELSE @]]

\* handleTimeUpdate; bufEnd is vid.buffered.end(last), -1 when vid.buffered is empty
handleTimeUpdate(w, bufEnd) ==
  IF w.ui.seeking \/ w.ui.transitioning THEN w
  ELSE [w EXCEPT !.queued =
          [@ EXCEPT !.currentTime = offsets[w.ui.partIndex] + w.vid.currentTime,
                    !.buffered = IF bufEnd >= 0 THEN offsets[w.ui.partIndex] + bufEnd
                                 ELSE @]]

\* the callback handleEnded hands to requestAnimationFrame
AdvanceCallback == [kind |-> "advance", localTime |-> 0, target |-> 0, playing |-> TRUE]

\* the callback handleSeek and skip hand to requestAnimationFrame; it closes
\* over localTime, the target and the playing state of the render
SeekCallback(localTime, target, wasPlaying) ==
  [kind |-> "seek", localTime |-> localTime, target |-> target, playing |-> wasPlaying]

\* handleEnded
handleEnded(w) ==
  IF w.ui.partIndex < Len(sources) - 1
  THEN [w EXCEPT !.queued = [@ EXCEPT !.transitioning = TRUE,
                                      !.partIndex = w.ui.partIndex + 1],
                 !.raf = Append(@, AdvanceCallback)]
  ELSE [w EXCEPT !.queued = [@ EXCEPT !.playing = FALSE]]

\* togglePlay, with the onPlay / onPause handlers of the element
togglePlay(w) ==
  IF w.ui.playing
  THEN [w EXCEPT !.vid = PauseElement(@), !.queued = [@ EXCEPT !.playing = FALSE]]
  ELSE [w EXCEPT !.vid = PlayElement(@), !.queued = [@ EXCEPT !.playing = TRUE]]

\* handleSeek with targetTime = ratio * totalDuration
handleSeek(w, targetTime) ==
  LET targetPart == partForTime(targetTime)
      localTime == targetTime - offsets[targetPart]
  IN  IF targetPart # w.ui.partIndex
      THEN [w EXCEPT !.queued = [@ EXCEPT !.seeking = TRUE, !.partIndex = targetPart],
                     !.raf = Append(@, SeekCallback(localTime, targetTime, w.ui.playing))]
      ELSE [w EXCEPT !.vid = SetCurrentTime(@, localTime),
                     !.queued = [@ EXCEPT !.currentTime = targetTime, !.seeking = FALSE]]

\* the unified time skip(delta) aims at
SkipTarget(w, delta) == clamp(w.ui.currentTime + delta, 0, totalDuration)

\* skip(delta)
skip(w, delta) ==
  LET target == SkipTarget(w, delta)
      targetPart == partForTime(target)
      localTime == target - offsets[targetPart]
  IN  IF targetPart # w.ui.partIndex
      THEN [w EXCEPT !.queued = [@ EXCEPT !.seeking = TRUE, !.partIndex = targetPart],
                     !.raf = Append(@, SeekCallback(localTime, target, w.ui.playing))]
      ELSE [w EXCEPT !.vid = SetCurrentTime(@, localTime),
                     !.queued = [@ EXCEPT !.currentTime = target]]

\* one requestAnimationFrame callback runs
RunCallback(w, cb) ==
  IF cb.kind = "advance"
  THEN [w EXCEPT !.vid = PlayElement(SetCurrentTime(@, 0)),
                 !.queued = [@ EXCEPT !.playing = TRUE, !.transitioning = FALSE]]
  ELSE [w EXCEPT !.vid = IF cb.playing THEN PlayElement(SetCurrentTime(@, cb.localTime))
                         ELSE SetCurrentTime(@, cb.localTime),
                 !.queued = [@ EXCEPT !.playing = IF cb.playing THEN TRUE ELSE @,
                                      !.currentTime = cb.target,
                                      !.seeking = FALSE]]

\* an animation frame runs every callback of the queue, oldest first
RECURSIVE RunCallbacks(_, _)
RunCallbacks(w, cbs) ==
  IF cbs = <<>> THEN w ELSE RunCallbacks(RunCallback(w, Head(cbs)), Tail(cbs))

\* the player after a step
Becomes(w) ==
  /\ ui' = w.ui
  /\ queued' = w.queued
  /\ vid' = w.vid
  /\ rafQueue' = w.raf
  /\ effectPending' = w.eff

nonPlayerVars == <<cfgVars, uploadVars, planVars, tryVars, delVars, idVars>>

(***************************************************************************)
(* SeamlessPlayer: the steps of a mounted player.                          *)
(***************************************************************************)
PartDurations == {k * TickSeconds : k \in 0..MaxPartTicks}

DurationLists == UNION {[1..n -> PartDurations] : n \in 1..MaxPlayerParts}

\* the points of the progress bar a click lands on
SeekTargets == {t \in 0..totalDuration : t % TickSeconds = 0}

\* a click on the play button or on the picture
TogglePlay ==
  /\ vid.src >= 0
  /\ inputs < MaxInputs
  /\ Becomes(Discrete(togglePlay(RunEffect(World))))
  /\ inputs' = inputs + 1
  /\ UNCHANGED <<parts, totalDuration, seekTarget>>
  /\ UNCHANGED nonPlayerVars

\* a click on the progress bar
Seek(targetTime) ==
  /\ vid.src >= 0
  /\ inputs < MaxInputs
  /\ Becomes(Discrete(handleSeek(RunEffect(World), targetTime)))
  /\ seekTarget' = targetTime
  /\ inputs' = inputs + 1
  /\ UNCHANGED <<parts, totalDuration>>
  /\ UNCHANGED nonPlayerVars

\* a skip button or an arrow key
Skip(delta) ==
  /\ vid.src >= 0
  /\ inputs < MaxInputs
  /\ Becomes(Discrete(skip(RunEffect(World), delta)))
  /\ seekTarget' = SkipTarget(RunEffect(World), delta)
  /\ inputs' = inputs + 1
  /\ UNCHANGED <<parts, totalDuration>>
  /\ UNCHANGED nonPlayerVars

\* the element reports its position: after step seconds of playback, or
\* with step = 0 after its position was set
TimeUpdate(step, bufEnd) ==
  /\ vid.src >= 0
  /\ step > 0 => /\ ~vid.paused
                 /\ ~vid.ended
                 /\ vid.currentTime < SourceDuration(vid.src)
  /\ LET moved == [World EXCEPT !.vid.currentTime =
                     clamp(vid.currentTime + step, 0, SourceDuration(vid.src))]
     IN  Becomes(handleTimeUpdate(moved, bufEnd))
  /\ seekTarget' = IF step > 0 THEN -1 ELSE seekTarget
  /\ UNCHANGED <<parts, totalDuration, inputs>>
  /\ UNCHANGED nonPlayerVars

\* playback reaches the end of the loaded source: the element pauses (onPause)
\* and fires ended (handleEnded)
Ended ==
  /\ vid.src >= 0
  /\ ~vid.paused
  /\ ~vid.ended
  /\ vid.currentTime = SourceDuration(vid.src)
  /\ LET stopped == [World EXCEPT !.vid.paused = TRUE, !.vid.ended = TRUE,
                                  !.queued.playing = FALSE]
     IN  Becomes(handleEnded(stopped))
  /\ seekTarget' = -1
  /\ UNCHANGED <<parts, totalDuration, inputs>>
  /\ UNCHANGED nonPlayerVars

\* the component re-renders with the queued state
Commit ==
  /\ queued # ui
  /\ Becomes(Render(World))
  /\ UNCHANGED <<parts, totalDuration, seekTarget, inputs>>
  /\ UNCHANGED nonPlayerVars

\* the load-current-part effect of the last render runs
Effect ==
  /\ effectPending
  /\ Becomes(RunEffect(World))
  /\ UNCHANGED <<parts, totalDuration, seekTarget, inputs>>
  /\ UNCHANGED nonPlayerVars

\* the browser runs the requestAnimationFrame callbacks
AnimationFrame ==
  /\ rafQueue # <<>>
  /\ Becomes([RunCallbacks(World, rafQueue) EXCEPT !.raf = <<>>])
  /\ UNCHANGED <<parts, totalDuration, seekTarget, inputs>>
  /\ UNCHANGED nonPlayerVars

\* the component is mounted: first render, and the load effect has run
PlayerInit ==
  /\ \/ /\ parts \in DurationLists
        /\ totalDuration = OffsetAt(parts, Len(parts))
     \/ /\ parts = <<>>
        /\ totalDuration \in PartDurations
  /\ ui = InitialState
  /\ queued = InitialState
  /\ vid = Load(0)
  /\ rafQueue = <<>>
  /\ effectPending = FALSE
  /\ seekTarget = -1
  /\ inputs = 0

PlayerNext ==
  \/ TogglePlay
  \/ \E targetTime \in SeekTargets : Seek(targetTime)
  \/ \E delta \in {-SkipSeconds, SkipSeconds} : Skip(delta)
  \/ \E step \in {0, TickSeconds} :
       \E bufEnd \in {-1, SourceDuration(vid.src)} : TimeUpdate(step, bufEnd)
  \/ Ended
  \/ Commit
  \/ Effect
  \/ AnimationFrame

InitPlayer ==
  StoreIdle /\ UploadIdle /\ PlanIdle /\ TryIdle /\ DeleteIdle /\ PlayerInit /\ IdIdle

SpecPlayer == InitPlayer /\ [][PlayerNext]_vars

\* a mounted player at part 0 with playback on, and a viewer who leaves it alone
AutoplayInit ==
  /\ \/ /\ parts \in DurationLists
        /\ totalDuration = OffsetAt(parts, Len(parts))
     \/ /\ parts = <<>>
        /\ totalDuration \in PartDurations
  /\ ui = [InitialState EXCEPT !.playing = TRUE]
  /\ queued = [InitialState EXCEPT !.playing = TRUE]
  /\ vid = PlayElement(Load(0))
  /\ rafQueue = <<>>
  /\ effectPending = FALSE
  /\ seekTarget = -1
  /\ inputs = 0

\* playback moves on by one tick
Playback == \E bufEnd \in {-1, SourceDuration(vid.src)} : TimeUpdate(TickSeconds, bufEnd)

AutoplayNext ==
  \/ \E step \in {0, TickSeconds} :
       \E bufEnd \in {-1, SourceDuration(vid.src)} : TimeUpdate(step, bufEnd)
  \/ Ended
  \/ Commit
  \/ Effect
  \/ AnimationFrame

InitAutoplay ==
  StoreIdle /\ UploadIdle /\ PlanIdle /\ TryIdle /\ DeleteIdle /\ AutoplayInit /\ IdIdle

\* a playing stream goes on and ends; renders, effects and animation frames
\* that are due do happen
SpecAutoplay ==
  /\ InitAutoplay
  /\ [][AutoplayNext]_vars
  /\ WF_vars(Playback)
  /\ WF_vars(Ended)
  /\ WF_vars(Commit)
  /\ WF_vars(Effect)
  /\ WF_vars(AnimationFrame)

(***************************************************************************)
(* Claims.                                                                 *)
(***************************************************************************)
JobIndices == 1..Len(jobs)

\* C1: ingestion is all-or-nothing.  A VideoRecord exists only when every part
\* upload of the request has succeeded; when a part upload failed for good,
\* or probing or splitting failed, no record is created for the request.
C1_AllOrNothing ==
  /\ videos # {} => /\ jobs # <<>>
                    /\ \A i \in JobIndices : jobs[i].status = "ok"
  /\ (\E i \in JobIndices : jobs[i].status = "failed") => videos = {}
  /\ failure \in {"upload", "probe", "split", "oversized"} => videos = {}

\* C1 witness: a part failed after all its retries while a sibling succeeded,
\* the request has ended and no record exists.
C1_Witness ==
  /\ pc = "done"
  /\ failure = "upload"
  /\ \E i \in JobIndices : jobs[i].status = "failed" /\ jobs[i].calls = MAX_RETRIES + 1
  /\ \E i \in JobIndices : jobs[i].status = "ok"
  /\ videos = {}

\* C3: the orchestrator decides, answers and releases the staging directory
\* only after every part upload has settled: no part upload is in flight once
\* the request has left the join, answered, or removed the directory.
C3_JoinWaitsForAll ==
  (resp # 0 \/ tempDir = "removed" \/ pc \in {"finally", "done"})
    => \A i \in JobIndices : jobs[i].status # "inflight"

\* C4: once the staging directory has been created, every exit of the request
\* ends with the directory removed.
C4_StagingRemoved ==
  /\ pc = "done" => tempDir # "exists"
  /\ (pc = "done" /\ failure \in {"upload", "probe", "split", "oversized",
                                  "metadata", "create"}) => tempDir = "removed"
  /\ (pc = "done" /\ resp = 201) => tempDir = "removed"

\* C4 witness: the record could not be persisted and the directory is gone.
C4_Witness ==
  /\ pc = "done"
  /\ failure = "create"
  /\ tempDir = "removed"

\* C5: every store call of the request is made under the configuration the
\* request resolved, and the cloud name written into the record is the cloud
\* that holds its objects.
C5_OwnConfigOnly ==
  /\ \A i \in JobIndices : jobs[i].cfg = RequestConfig(creds)
  /\ \A v \in videos : [cloud |-> v.cloudName, publicId |-> v.publicId] \in remote

\* C6: an asset at or below the store limit is never split, is uploaded by
\* exactly one direct upload, and its record has isMultipart = false, no
\* parts and totalParts = 1.
C6_DirectUpload ==
  fileSize <= 104857600 =>
    /\ ~splitCalled
    /\ ~isMultipart
    /\ Len(jobs) <= 1
    /\ \A i \in JobIndices : jobs[i].publicId = BasePublicId
    /\ (pc \in {"uploading", "assembling", "create"} \/ resp = 201) => Len(jobs) = 1
    /\ \A v \in videos : ~v.isMultipart /\ v.parts = <<>> /\ v.totalParts = 1

\* C6 witness: an asset of exactly the limit has been uploaded and recorded.
C6_Witness ==
  /\ fileSize = 104857600
  /\ pc = "done"
  /\ resp = 201
  /\ videos # {}

\* C7: above the store limit the planned part count is in 2..MAX_PARTS, and
\* either no generated part exceeds the limit or the request fails with the
\* oversized-part error without any upload or record.
C7_SplitBounds ==
  fileSize > 104857600 =>
    /\ segments # 0 => (1 < segments /\ segments <= 20)
    /\ genSizes # <<>> =>
         \/ \A k \in 1..Len(genSizes) : genSizes[k] <= 104857600
         \/ /\ failure = "oversized"
            /\ resp = 500
            /\ jobs = <<>>
            /\ remote = {}
            /\ videos = {}

\* C7 witness: a plan clamped to MAX_PARTS whose remux left an oversized part.
C7_Witness ==
  /\ fileSize > 104857600
  /\ segments = 20
  /\ failure = "oversized"
  /\ \E k \in 1..Len(genSizes) : genSizes[k] > 104857600
  /\ pc = "done"

\* the decimal value of a sequence of digit characters, -1 if one is no digit
RECURSIVE DecimalValue(_)
DecimalValue(ds) ==
  IF ds = <<>> THEN 0
  ELSE LET c == ds[Len(ds)]
           rest == DecimalValue(SubSeq(ds, 1, Len(ds) - 1))
       IN  IF rest < 0 \/ ~(\E d \in 0..9 : Digits[d + 1] = c) THEN -1
           ELSE 10 * rest + (CHOOSE d \in 0..9 : Digits[d + 1] = c)

\* id is <folder>/<base>-part-NNN with NNN the three-digit form of n
NamesPart(id, n) ==
  LET stem == <<"v","i","d","e","o","-","p","l","a","t","f","o","r","m","/","c","l","i","p","-","k","1","-","p","a","r","t","-">>
  IN  /\ Len(id) = Len(stem) + 3
      /\ SubSeq(id, 1, Len(stem)) = stem
      /\ DecimalValue(SubSeq(id, Len(stem) + 1, Len(id))) = n

\* C10: whatever the completion order and the retries of the part uploads,
\* slot i of the record's parts holds the part that was given index i (its
\* identifier ends in -part-(i+1), zero-padded), and the record's primary
\* identifier is that of part index 0.
C10_SlotsByIndex ==
  \A v \in videos :
    /\ v.isMultipart =>
         /\ Len(v.parts) = Len(jobs)
         /\ \A k \in 1..Len(v.parts) : NamesPart(v.parts[k].publicId, k)
         /\ v.publicId = v.parts[1].publicId
    /\ v.publicId = StoredPublicId(jobs[1].publicId)

\* C10 witness: the second part finished first, the first part needed a retry.
C10_Witness ==
  /\ videos # {}
  /\ Len(arrivals) >= 2
  /\ arrivals[1] = 2
  /\ arrivals[2] = 1
  /\ jobs[1].calls > 1

\* id is base, then -part-, then the three-digit zero-padded form of n
IsPartIdOf(id, base, n) ==
  LET stem == base \o <<"-","p","a","r","t","-">>
  IN  /\ Len(id) = Len(stem) + 3
      /\ SubSeq(id, 1, Len(stem)) = stem
      /\ DecimalValue(SubSeq(id, Len(stem) + 1, Len(id))) = n

\* C11: part identifiers are deterministic and collision-free within one
\* asset.  Every upload_large call of a part, retries included, carries the
\* identifier the part was given and overwrite = false; the identifier of
\* part i is base-part-NNN with NNN the zero-padded i; distinct parts have
\* distinct identifiers; the store never holds more objects of the request
\* than it has parts, each under the identifier of one of its parts.
C11_StableIdentifiers ==
  /\ \A i \in JobIndices :
       /\ Len(jobs[i].sent) = jobs[i].calls
       /\ \A k \in 1..Len(jobs[i].sent) :
            /\ jobs[i].sent[k].public_id = jobs[i].publicId
            /\ jobs[i].sent[k].overwrite = FALSE
       /\ IF isMultipart THEN IsPartIdOf(jobs[i].publicId, BasePublicId, i)
          ELSE jobs[i].publicId = BasePublicId
  /\ \A i, j \in JobIndices : i # j => jobs[i].publicId # jobs[j].publicId
  /\ \A n \in {1, 9, 10, 20} :
       IsPartIdOf(PartPublicId(BasePublicId, n - 1), BasePublicId, n)
  /\ {o.publicId : o \in remote} \subseteq
       {StoredPublicId(jobs[i].publicId) : i \in JobIndices}
  /\ Cardinality({o.publicId : o \in remote}) <= Len(jobs)

\* C11 witness: two parts, the first stored after a retried call, the second
\* stored too.
C11_Witness ==
  /\ isMultipart
  /\ Len(jobs) = 2
  /\ jobs[1].status = "ok"
  /\ jobs[1].calls >= 2
  /\ jobs[2].status = "ok"
  /\ Cardinality(remote) >= 2

\* the reference plan: ceil(fileSize / target), clamped to [1, MAX_PARTS], then
\* decremented while segments > 1 and fileSize / segments < minPartSize
RECURSIVE RefMerge(_, _)
RefMerge(size, n) ==
  IF n > 1 /\ size < 52428800 * n THEN RefMerge(size, n - 1) ELSE n

RefSegments(size) ==
  LET raw == (size + 73400320 - 1) \div 73400320
      clamped == IF raw < 1 THEN 1 ELSE IF raw > 20 THEN 20 ELSE raw
  IN  RefMerge(size, clamped)

RetryableSamples == {ErrRequestTimeout, ErrUnavailable, ErrBadGateway}

\* C9: uploadWithRetry makes at most MAX_RETRIES + 1 = 4 attempts; an attempt
\* is followed by another only if it failed with a retryable error and fewer
\* than MAX_RETRIES retries were used; a non-retryable failure propagates
\* after that one attempt; a success returns with no further attempt.
C9_RetryPolicy ==
  LET n == Len(tryLog)
      issued == IF tryPc = "calling" THEN n + 1 ELSE n
  IN  /\ issued <= 4
      /\ \A k \in 1..n :
           \* attempt k was followed by another one
           (k < issued) => /\ ~tryLog[k].ok
                           /\ tryLog[k].error \in RetryableSamples
                           /\ k - 1 < 3
      /\ \A k \in 1..n :
           (~tryLog[k].ok /\ tryLog[k].error \notin RetryableSamples)
             => (k = issued /\ tryPc = "threw")
      /\ \A k \in 1..n : tryLog[k].ok => (k = issued /\ tryPc = "returned")
      /\ tryPc = "threw" => (n >= 1 /\ ~tryLog[n].ok)
      /\ tryPc = "returned" => (n >= 1 /\ tryLog[n].ok)
      /\ (n >= 1 /\ n < 4 /\ ~tryLog[n].ok /\ tryLog[n].error \in RetryableSamples)
           => tryPc = "calling"

\* C9 witness: four attempts, each answered with a retryable error; the last
\* error is thrown.
C9_Witness ==
  /\ tryPc = "threw"
  /\ Len(tryLog) = 4
  /\ \A k \in 1..4 : tryLog[k].error \in RetryableSamples

\* C2: deletion is atomic at the record level.  When a DELETE request has
\* ended after its remote deletes, a non-empty failedIds means the record is
\* still there, and an empty failedIds means the record is gone, also when
\* the persistence-layer delete can fail after the remote deletes succeeded.
C2_DeleteAtomic ==
  (delPc = "done" /\ delFailure \in {"none", "remote", "db"}) =>
    /\ Len(delFailedIds) > 0 => delVideo \subseteq videos
    /\ Len(delFailedIds) = 0 => delVideo \cap videos = {}

\* a prefix delete that succeeded covers id
CoveredByPrefixDelete(id) ==
  \E k \in 1..Len(delPrefixes) :
    /\ StartsWith(id, delPrefixes[k])
    /\ delPrefixes[k] \notin Range(delFailedIds)

\* a deleteWithRetry call was made for id
AttemptedById(id) == \E k \in 1..Len(delJobs) : delJobs[k].id = id

\* C14: once the DELETE handler is past its prefix deletes, every candidate
\* identifier that no successful prefix delete covers has its own
\* deleteWithRetry call; in particular the identifiers of a group whose
\* prefix delete failed.
C14_UncoveredIdsAttempted ==
  delPc \in {"ids", "dbdelete", "done"} =>
    \A id \in Range(delIds) : CoveredByPrefixDelete(id) \/ AttemptedById(id)

\* the delete of candidate id was confirmed
ConfirmedDeleted(id) ==
  \/ CoveredByPrefixDelete(id)
  \/ \E k \in 1..Len(delJobs) : delJobs[k].id = id /\ delJobs[k].status = "ok"

\* C15: when a DELETE request answers with a remote failure, failedIds is
\* exactly the set of candidate identifiers whose delete was not confirmed,
\* and the record is untouched.
C15_FailedIdsExact ==
  (delPc = "done" /\ delFailure = "remote") =>
    /\ Range(delFailedIds) \subseteq Range(delIds)
    /\ \A id \in Range(delIds) : ~ConfirmedDeleted(id) => id \in Range(delFailedIds)
    /\ delVideo \subseteq videos

\* the sum of field f over the upload results
RECURSIVE ResultsTotal(_, _)
ResultsTotal(rs, f) ==
  IF rs = <<>> THEN 0 ELSE rs[1][f] + ResultsTotal(Tail(rs), f)

C17_ProbeBeforeUpload ==
  /\ jobs # <<>> => (splitCalled /\ segments # 0)
  /\ failure \in {"probe", "metadata"} => remote = {}

\* the part indices of the mounted player
PartIndices == 0..(Len(sources) - 1)

\* C12: with offsets[i] the sum of the durations before part i, for every t in
\* [0, totalDuration] partForTime(t) is the greatest part index i with
\* offsets[i] <= t, hence offsets[p] <= t < offsets[p + 1], except that
\* t = totalDuration maps to the last part; parts of duration 0 included.
C12_TimeMapping ==
  vid.src >= 0 =>
    /\ \A i \in PartIndices : offsets[i + 1] = offsets[i] + sources[i + 1]
    /\ \A t \in 0..totalDuration :
         LET p == partForTime(t)
         IN  /\ p \in PartIndices
             /\ offsets[p] <= t
             /\ \A i \in PartIndices : offsets[i] <= t => i <= p
             /\ \/ t < offsets[p + 1]
                \/ (t = totalDuration /\ p = Len(sources) - 1)

\* C12 witness: a seek into an asset with a part of duration 0 has switched
\* to the part partForTime gives.
C12_Witness ==
  /\ \E i \in PartIndices : sources[i + 1] = 0
  /\ totalDuration > 0
  /\ seekTarget >= 0
  /\ rafQueue = <<>>
  /\ ui.partIndex > 0
  /\ ui.partIndex = partForTime(seekTarget)

\* the last seek or skip has completed: its callback has run and everything
\* has been rendered
SeekCompleted ==
  /\ seekTarget >= 0
  /\ rafQueue = <<>>
  /\ queued = ui
  /\ ~effectPending
  /\ ~ui.seeking

\* C13: after a seek or skip has completed the active part is
\* partForTime(target), the local time of the stream is target minus the
\* offset of that part and the unified time is target, whatever the order
\* of the deferred callbacks, the load effect and a pending auto-advance.
C13_SeekLands ==
  SeekCompleted =>
    /\ ui.partIndex = partForTime(seekTarget)
    /\ vid.src = ui.partIndex
    /\ vid.currentTime = seekTarget - offsets[ui.partIndex]
    /\ ui.currentTime = seekTarget

\* C18: seeking and transitioning are never set together.
C18_PhasesExclusive == ~(ui.seeking /\ ui.transitioning)

\* what handleTimeUpdate is to leave in the state for the position and the
\* buffered end the element reports
TimeUpdateEffect(bufEnd) ==
  IF ui.seeking \/ ui.transitioning
  THEN /\ queued'.currentTime = queued.currentTime
       /\ queued'.buffered = queued.buffered
  ELSE /\ queued'.currentTime = offsets[ui.partIndex] + vid'.currentTime
       /\ queued'.buffered = IF bufEnd >= 0 THEN offsets[ui.partIndex] + bufEnd
                             ELSE queued.buffered

\* C20: a time update sets the unified time to offsets[partIndex] + localTime
\* and the buffered position to offsets[partIndex] + bufferedEnd when neither
\* seeking nor transitioning is set, and changes neither while one is set.
C20_TimeUpdateEffect ==
  [][\A step \in {0, TickSeconds} : \A bufEnd \in {-1, SourceDuration(vid.src)} :
       TimeUpdate(step, bufEnd) => TimeUpdateEffect(bufEnd)]_vars

\* C20 witness: playing the second part, the unified time and the buffered
\* position have been translated by the offset of that part.
C20_Witness ==
  /\ ui.partIndex = 1
  /\ vid.src = 1
  /\ seekTarget = -1
  /\ ~ui.seeking
  /\ ~ui.transitioning
  /\ vid.currentTime > 0
  /\ offsets[1] > 0
  /\ queued.currentTime = offsets[1] + vid.currentTime
  /\ queued.buffered = offsets[1] + SourceDuration(1)

\* the player has stopped after its last part
StoppedAtEnd ==
  /\ ui.partIndex = Len(sources) - 1
  /\ vid.src = ui.partIndex
  /\ vid.currentTime = SourceDuration(vid.src)
  /\ vid.paused
  /\ ~ui.playing

\* C19: auto-advance.  Without user input the part index only ever moves
\* to the next part, and a player that starts at part 0 with playback on
\* plays every part and eventually stops after the last one.
C19_AutoAdvance ==
  /\ [][ui'.partIndex \in {ui.partIndex, ui.partIndex + 1}]_vars
  /\ <>[]StoppedAtEnd

\* C21: during playback without any seek or skip of the viewer, the unified
\* time on display never decreases from one render to the next, under every
\* ordering of the ended handler, the load effect, the transition callback
\* and the time reports of the element.
C21_TimeMonotone == [][ui'.currentTime >= ui.currentTime]_vars

\* C22: the per-id remote delete follows the policy of uploadWithRetry.  After
\* every answer of the store to a deleteWithRetry call, the call stands where
\* uploadWithRetry would stand after the same answer to the same attempt:
\* returned on a success, trying again on a retryable error (a message with
\* "timeout", HTTP 503 or 504) while fewer than MAX_RETRIES retries were
\* made, failed otherwise.
C22_DeleteRetryAsUpload ==
  \A k \in 1..Len(delJobs) :
    LET job == delJobs[k]
        n == Len(job.log)
    IN  n >= 1 =>
          LET decision == RetryDecision(n - 1, job.log[n])
          IN  /\ n <= MAX_RETRIES + 1
              /\ (decision = "return") <=> (job.status = "ok")
              /\ (decision = "continue") <=> (job.status = "inflight")
              /\ (decision = "throw") <=> (job.status = "failed")

\* C23: in both splitVideo implementations, for a file above the store limit
\* (the only files the callers hand to splitVideo) and every probed duration
\* >= 0, the segment duration handed to the remux tool is an integer >= 1.
C23_SegmentDurationPositive ==
  (planPc = "planned" /\ planSize > CLOUDINARY_LIMIT) =>
    /\ planSegDur.kind = "finite"
    /\ planSegDur.val >= 1

\* C24: every record the upload route persists has isMultipart true exactly
\* when more than one part was uploaded, for every list of part files the
\* split step can leave for a file above the store limit.
C24_MultipartIffManyParts ==
  \A v \in videos : v.isMultipart <=> (v.totalParts > 1)

\* an upload request has ended: Complete (201, record persisted) or Failed
UploadSettled ==
  /\ pc = "done"
  /\ fileSize > 0 =>
       \/ resp = 201 /\ failure = "none" /\ videos # {}
       \/ resp \in {400, 401, 500} /\ videos = {}

\* a delete request has answered
DeleteSettled ==
  /\ delPc = "done"
  /\ fileSize = 0 => delResp \in {200, 400, 401, 404, 500}

\* C25: when every awaited call returns, every upload request eventually
\* reaches Complete or Failed and every delete request eventually answers,
\* also when the store answers every attempt with a retryable error: no
\* uploadWithRetry makes more than MAX_RETRIES + 1 calls and no
\* deleteWithRetry more than its three.
C25_RequestsTerminate ==
  /\ <>[](UploadSettled /\ DeleteSettled)
  /\ [](\A i \in 1..Len(jobs) : jobs[i].calls <= MAX_RETRIES + 1)
  /\ [](\A k \in 1..Len(delJobs) : Len(delJobs[k].log) <= DeleteAttempts)

\* C25 witness: an upload request has failed after the store answered four
\* calls for one part with a retryable error.
C25_Witness ==
  /\ UploadSettled
  /\ resp = 500
  /\ failure = "upload"
  /\ \E i \in 1..Len(jobs) : jobs[i].status = "failed" /\ jobs[i].calls = MAX_RETRIES + 1

\* C26: whenever a DELETE request removes the record, every identifier
\* stored on the record (the primary publicId and the publicId of each part)
\* was covered by a remote delete call that succeeded, also when the body
\* carries a parts list that differs from the stored identifiers.
C26_RecordIdsDeleted ==
  (delPc = "done" /\ delResp = 200) =>
    \A v \in delVideo :
      /\ v \notin videos
      /\ \A o \in ObjectsOf(v) : ConfirmedDeleted(o.publicId)

\* C27: a DELETE request on a record never removes a remote object of
\* another record: the object stored under IdOther, which no identifier of
\* the deleted record names, stays in the store whatever prefix is derived
\* and whatever parts list the client sends.
C27_OtherObjectsKept ==
  [cloud |-> EffectiveCloudName, publicId |-> IdOther] \in remote

\* C28: no orphaned remote parts.  When an upload request has ended, every
\* object it uploaded is referenced by a persisted record; after a failed
\* request (a sibling upload failed, the probe after the upload failed, the
\* record could not be created) none of its objects is left in the store.
C28_NoOrphans ==
  pc = "done" =>
    \A i \in 1..Len(jobs) :
      jobs[i].status = "ok" =>
        \E v \in videos :
          \/ v.publicId = StoredPublicId(jobs[i].publicId)
          \/ \E k \in 1..Len(v.parts) : v.parts[k].publicId = StoredPublicId(jobs[i].publicId)

\* C29: for the upload route, a file above the store limit and a duration
\* of at least one second, cutting the source every segmentDuration seconds
\* leaves as many parts as the plan has segments, and never more than
\* MAX_PARTS.
C29_PartsAsPlanned ==
  (planPc = "planned" /\ planImpl = "route" /\ planSize > CLOUDINARY_LIMIT
     /\ planDuration >= 1) =>
    /\ planSegDur.kind = "finite"
    /\ PhysicalParts(planDuration, planSegDur.val) = planSegments
    /\ PhysicalParts(planDuration, planSegDur.val) <= MAX_PARTS

\* C30: two upload requests never derive the same base identifier, also when
\* they carry the same file name and run at the same time.
C30_BaseIdsDistinct ==
  \A r1, r2 \in Requests :
    (r1 # r2 /\ reqBase[r1] # <<>> /\ reqBase[r2] # <<>>) => reqBase[r1] # reqBase[r2]


====
